---- MODULE Spec2Model ----
(***************************************************************************)
(* Model of MCMC_Ex5.py: Bayesian calibration of the Fitzhugh-Nagumo       *)
(* parameter with the t-walk sampler.                                      *)
(*                                                                         *)
(* Numbers.  The walkers live on a grid of fifths: the integer k stands    *)
(* for the parameter value k / One.  A parameter value handed to the       *)
(* forward solver is in thousandths (Milli).  Field values (u, Data),      *)
(* energies and log-densities are in thousandths, rounded.                 *)
(* A ParameterVector of dimension d = 1 is the 1-tuple <<k>>; theta[0] of  *)
(* the source is th[1] here.                                               *)
(*                                                                         *)
(* What is in MCMC_Ex5.py (Supp, LogPrior, LogLikelihood, Energy,          *)
(* make_data, fm_fNagumo_obs, SimInit, the driver lines 181-185 and        *)
(* plot_post) is translated from it.  The sampling engine (pytwalk.Run)    *)
(* and the forward solver (FM_Ex2.u_true, FM_Ex2.U_xt) are imported by the *)
(* file but are not part of it; they are modelled from the specification.  *)
(***************************************************************************)
EXTENDS Integers, Sequences, FiniteSets, TLC

VARIABLES
    pc,         \* position of the script
    rng,        \* state of the global numpy generator
    T,          \* requested number of iterations (Run's T)
    x0, xp0,    \* the two initial points handed to Run
    x, xp,      \* ChainState: primary and secondary walker
    U, Up,      \* ChainState: their cached energies
    Output,     \* Trace: rows <<theta, energy>>
    it,         \* iterations completed by Run's loop
    kercall,    \* number of kernel invocations so far
    mover,      \* walker moved by the last iteration: "x", "xp" or "none"
    cand,       \* candidate generated by the last iteration
    acc,        \* whether the last iteration accepted its candidate
    ecalls,     \* points at which the last operation invoked Energy
    hpd_index,  \* line 184
    MAP,        \* line 185
    start,      \* line 190
    Out_r,      \* line 191
    runNo,      \* which execution of the script this is (1 or 2)
    prevOutput, \* Output of the first execution, kept for comparison
    prevInit    \* <<x0, xp0>> of the first execution, kept for comparison

vars == <<pc, rng, T, x0, xp0, x, xp, U, Up, Output, it, kercall, mover,
          cand, acc, ecalls, hpd_index, MAP, start, Out_r, runNo, prevOutput, prevInit>>

(***************************************************************************)
(* Bounds of the model                                                     *)
(***************************************************************************)
MaxT == 3
MaxTRepro == 1
SynthLen == 5

(***************************************************************************)
(* Fixed parameters of the script                                          *)
(***************************************************************************)
One == 5
n_obs == 8
sigma_true == 7
n_m == 8
nx == n_m * (n_obs + 2)
N == nx - 1
theta == 300
d == 1
alp_r == 2
bet_r_twice == 7
alp_r1 == alp_r - 1
bet_r1_twice == bet_r_twice - 2
prior_consts == -2757
like_const == 4043
Seed == 23
BurnNum == 4
BurnDen == 10

(***************************************************************************)
(* IEEE values a numpy evaluation can return besides finite numbers        *)
(***************************************************************************)
Inf == 1000 * 1000 * 1000
NegInf == -Inf
NaN == 2 * Inf

Points == (-2 * One) .. (3 * One)

Abs(a) == IF a < 0 THEN -a ELSE a

RECURSIVE SumSeq(_)
SumSeq(s) == IF s = <<>> THEN 0 ELSE Head(s) + SumSeq(Tail(s))

(***************************************************************************)
(* The global generator.  Seeded, its draws are a fixed function of the    *)
(* seed and of the number of draws made; seeded from None, it is seeded    *)
(* from operating-system entropy and every draw is an unknown value.       *)
(***************************************************************************)
SeedWith(s) == [seeded |-> TRUE, seed |-> s, n |-> 0]
SeedNone == [seeded |-> FALSE, seed |-> 0, n |-> 0]
Stream(s, n) == (s * 7 + n * 13 + (n * n) * 3 + 5) % 31
DrawSet(g, j, range) ==
    IF g.seeded THEN {Stream(g.seed, g.n + j) % range} ELSE 0 .. (range - 1)
Advance(g, c) == IF g.seeded THEN [g EXCEPT !.n = @ + c] ELSE g
\* gaussian.rvs: a standard normal draw quantised to whole standard deviations
GaussOf(draw) == draw - 1

(***************************************************************************)
(* Forward solver (FM_Ex2): deterministic functions of theta               *)
(***************************************************************************)
\* the parameter value k / One in thousandths
Milli(k) == (k * 1000) \div One
\* exact solution at node j for the parameter m (thousandths)
u_true(j, m) == 500 + (j - nx \div 2) * 4 - (m - 500) \div 5
\* numerical solution at the final time, nodes 1 .. N: exact plus scheme error
U_xt(m) == [j \in 1 .. N |-> u_true(j, m) + ((j + m \div 100) % 3) - 1]

\* X[-1][(n_m - 1)::n_m][:-1]: every n_m-th node from index n_m - 1, last dropped
fm_fNagumo_obs(m) ==
    LET X == U_xt(m)
        cnt == (N - (n_m - 1) - 1) \div n_m + 1
    IN  [i \in 1 .. (cnt - 1) |-> X[n_m * i]]

\* x_obs = grid_x[::n_m][1:-1]: nodes n_m, 2 n_m, ..., n_obs n_m
x_obs == [i \in 1 .. n_obs |-> n_m * i]

(***************************************************************************)
(* Synthetic data                                                          *)
(***************************************************************************)
\* nr.seed(23); u_obs + sigma * gaussian.rvs(size=n_obs); nr.seed(None)
make_data(sigma, m) ==
    LET g == SeedWith(Seed)
        u_obs == [i \in 1 .. n_obs |-> u_true(x_obs[i], m)]
        z == [i \in 1 .. n_obs |->
                 GaussOf(CHOOSE v \in DrawSet(g, i - 1, 3) : TRUE)]
    IN  [i \in 1 .. n_obs |-> u_obs[i] + sigma * z[i]]

\* line 121: Data = make_data(sigma_true, theta), assigned once at import
Data == make_data(sigma_true, theta)

(***************************************************************************)
(* Posterior model                                                         *)
(***************************************************************************)
\* 1000 * ln(k / One), rounded, for k = 1 .. 15
LnTable ==
    << -1609, -916, -511, -223, 0, 182, 336, 470, 588, 693,
       788, 875, 956, 1030, 1099 >>

\* np.log: nan below zero, -inf at zero
np_log(k) ==
    IF k < 0 THEN NaN
    ELSE IF k = 0 THEN NegInf
    ELSE IF k <= Len(LnTable) THEN LnTable[k] ELSE LnTable[Len(LnTable)]

\* alp_r1 * log(theta[0]) + bet_r1 * (1 - theta[0]) - prior_consts
LogPrior(th) ==
    LET lg == np_log(th[1])
        lin == (bet_r1_twice * (One - th[1]) * 1000) \div (2 * One)
    IN  IF lg = NaN THEN NaN
        ELSE IF lg = NegInf THEN NegInf
        ELSE (alp_r1 * lg + lin) - prior_consts

\* like_const - 0.5 * || (Data - fmap_num) / sigma_true || ^ 2
\* Dtheta is kept in hundredths, its square norm in ten-thousandths
LogLikelihood(th) ==
    LET fmap_num == fm_fNagumo_obs(Milli(th[1]))
        Dtheta == [i \in 1 .. n_obs |-> (Abs(Data[i] - fmap_num[i]) * 100) \div sigma_true]
        norm2 == SumSeq([i \in 1 .. n_obs |-> Dtheta[i] * Dtheta[i]])
    IN  like_const - norm2 \div 20

EnergyNoPrior(th) == -LogLikelihood(th)

\* -(LogLikelihood(theta) + LogPrior(theta))
Energy(th) ==
    LET lp == LogPrior(th)
    IN  IF lp = NaN THEN NaN
        ELSE IF lp = NegInf THEN Inf
        ELSE -(LogLikelihood(th) + lp)

SuppClosed(th) == (th[1] >= 0) /\ (th[1] <= One)

\* (theta[0] > 0) and (theta[0] < 1)
Supp(th) == (th[1] > 0) /\ (th[1] < One)

\* twalk = pytwalk(n=d, U=Energy, Supp=Supp): the values twalk.U returns
EnergyValues == [k \in Points |-> Energy(<<k>>)]
twalk_U(th) == EnergyValues[th[1]]
twalk_Supp(th) == Supp(th)

\* np.array([beta.rvs(alp_r, bet_r)]): a draw from Beta(2, 3.5), inside (0, 1)
SimInit(g) == {<<1 + v>> : v \in DrawSet(g, 0, One - 1)}

(***************************************************************************)
(* Proposal kernels of the t-walk, for d = 1, on the grid                  *)
(***************************************************************************)
Kernels == <<"Walk", "Traverse", "Hop", "Blow">>
\* categorical weights, emphasising Walk and Traverse
KernelWeights == <<3, 3, 1, 1>>

RECURSIVE PickByWeight(_, _, _)
PickByWeight(w, i, draw) ==
    IF i >= Len(w) \/ draw < w[i] THEN i ELSE PickByWeight(w, i + 1, draw - w[i])
SelectKernel(draw) == Kernels[PickByWeight(KernelWeights, 1, draw)]

\* a / 2 rounded towards zero
Half(a) == IF a < 0 THEN -((-a) \div 2) ELSE a \div 2

\* Walk: along the vector between the walkers, factor z in {-1, 0, 1}
Walk(cur, ref, dz) == cur + (cur - ref) * ((dz % 3) - 1)
\* Traverse: reflection through the other walker, factor beta in {1/2, 1, 2}
Traverse(cur, ref, dz) ==
    LET b == dz % 3
    IN  IF b = 0 THEN ref + Half(ref - cur)
        ELSE IF b = 1 THEN ref + (ref - cur)
        ELSE ref + 2 * (ref - cur)
\* Hop: near the moving point, scale a third of the distance between the walkers
Hop(cur, ref, dz) == cur + ((dz % 3) - 1) * ((Abs(ref - cur) + 2) \div 3)
\* Blow: near the moving point, scale the distance between the walkers
Blow(cur, ref, dz) == cur + (dz - 2) * Abs(ref - cur)

Propose(k, cur, ref, dz) ==
    IF k = "Walk" THEN <<Walk(cur[1], ref[1], dz)>>
    ELSE IF k = "Traverse" THEN <<Traverse(cur[1], ref[1], dz)>>
    ELSE IF k = "Hop" THEN <<Hop(cur[1], ref[1], dz)>>
    ELSE <<Blow(cur[1], ref[1], dz)>>

\* log of the Jacobian of the kernel's map: beta ^ (d - 1) for Traverse
LogJacobian(k) == 0

\* uniform draw against min(1, exp(-(Uy - Ucur) + LogJacobian)); du = 0 is a
\* draw below the acceptance probability, du = 1 a draw above it unless it is 1.
\* The density ratio of Blow is not known here: its draw alone decides.
Accept(k, Ucur, Uy, du) ==
    IF Uy = NaN \/ Uy = Inf THEN FALSE
    ELSE IF k = "Blow" THEN du = 0
    ELSE (Uy - Ucur - LogJacobian(k) <= 0) \/ du = 0

MoreIterationsInclusive(i, t) == i <= t

\* for it in range(T)
MoreIterations(i, t) == i < t

Row(th, u) == th \o <<u>>

UpdatedBoth(moving, accepted, new, old) == IF accepted THEN new ELSE old

\* on acceptance the moving walker takes the candidate; nothing else changes
Updated(moving, accepted, new, old) == IF accepted /\ moving THEN new ELSE old

(***************************************************************************)
(* Reporting                                                               *)
(***************************************************************************)
MinIdx(e, S) == {i \in S : \A j \in S : e[i] <= e[j]}

\* np.argsort: the index orders that sort e; equal keys may come in any order
RECURSIVE ArgsortsOf(_, _)
ArgsortsOf(e, S) ==
    IF S = {} THEN {<<>>}
    ELSE UNION {{<<i>> \o p : p \in ArgsortsOf(e, S \ {i})} : i \in MinIdx(e, S)}
argsort(e) == ArgsortsOf(e, 1 .. Len(e))

\* twalk.Output[:, -1]
LastColumn(out) == [i \in 1 .. Len(out) |-> out[i][Len(out[i])]]
\* twalk.Output[:, 0]
FirstColumn(out) == [i \in 1 .. Len(out) |-> out[i][1]]

MAPLast(out, idx) == SubSeq(out[idx[Len(idx)]], 1, Len(out[idx[Len(idx)]]) - 1)

\* twalk.Output[hpd_index[0], :-1]
MAPOf(out, idx) == SubSeq(out[idx[1]], 1, Len(out[idx[1]]) - 1)

BurningOfLength(t) == (BurnNum * (t + 1)) \div BurnDen

\* int(.4 * T)
Burning(t) == (BurnNum * t) \div BurnDen

\* a[start:]
SliceFrom(a, s) == SubSeq(a, s + 1, Len(a))

(***************************************************************************)
(* Inputs of run(num_iterations, x0, xp0)                                  *)
(***************************************************************************)
\* points another caller of Run may hand in, the borders of the support included
CallerPoints == {<<k>> : k \in (-1) .. (One + 1)}
InitialPoints == SimInit(SeedNone) \cup CallerPoints

Fresh ==
    /\ pc = "start"
    /\ rng = SeedNone
    /\ x = <<>> /\ xp = <<>> /\ U = 0 /\ Up = 0
    /\ Output = <<>>
    /\ it = 0 /\ kercall = 0
    /\ mover = "none" /\ cand = <<>> /\ acc = FALSE
    /\ ecalls = {}
    /\ hpd_index = <<>> /\ MAP = <<>> /\ start = 0 /\ Out_r = <<>>

InitWith(maxT, pts) ==
    /\ Fresh
    /\ T \in 0 .. maxT
    /\ x0 \in pts
    /\ xp0 \in pts
    /\ runNo = 1
    /\ prevOutput = <<>>
    /\ prevInit = <<>>

Init == InitWith(MaxT, InitialPoints)

(***************************************************************************)
(* The script, step by step                                                *)
(***************************************************************************)
\* line 121: make_data seeds the generator with 23, draws, and reseeds it with None
MakeData ==
    /\ pc = "start"
    /\ rng' = SeedNone
    /\ pc' = "data"
    /\ UNCHANGED <<T, x0, xp0, x, xp, U, Up, Output, it, kercall, mover, cand,
                   acc, ecalls, hpd_index, MAP, start, Out_r, runNo, prevOutput, prevInit>>

\* a non-positive iteration count is a configuration error
ValidIterationCount(t) == t > 0

\* lines 181-183: twalk.Run(T, x0, xp0), Initializing; a configuration error
\* (an initial point outside the support, a non-positive T) is fatal
RunInit ==
    /\ pc = "data"
    /\ IF ValidIterationCount(T) /\ twalk_Supp(x0) /\ twalk_Supp(xp0)
       THEN /\ x' = x0
            /\ xp' = xp0
            /\ U' = twalk_U(x0)
            /\ Up' = twalk_U(xp0)
            /\ Output' = <<Row(x0, twalk_U(x0))>>
            /\ ecalls' = {x0, xp0}
            /\ pc' = "iterating"
       ELSE /\ pc' = "failed"
            /\ UNCHANGED <<x, xp, U, Up, Output, ecalls>>
    /\ UNCHANGED <<rng, T, x0, xp0, it, kercall, mover, cand, acc,
                   hpd_index, MAP, start, Out_r, runNo, prevOutput, prevInit>>

\* twalk.Run, Iterating: one kernel application
Iterate ==
    /\ pc = "iterating"
    /\ MoreIterations(it, T)
    /\ \E dk \in DrawSet(rng, 0, SumSeq(KernelWeights)),
          dc \in DrawSet(rng, 1, 2),
          dz \in DrawSet(rng, 2, 5),
          du \in DrawSet(rng, 3, 2) :
         LET k == SelectKernel(dk)
             mv == IF dc = 0 THEN "x" ELSE "xp"
             cur == IF mv = "x" THEN x ELSE xp
             ref == IF mv = "x" THEN xp ELSE x
             Ucur == IF mv = "x" THEN U ELSE Up
             y == Propose(k, cur, ref, dz)
             ok == twalk_Supp(y)
             Uy == IF ok THEN twalk_U(y) ELSE Ucur
             a == ok /\ Accept(k, Ucur, Uy, du)
             nx_ == Updated(mv = "x", a, y, x)
             nU == Updated(mv = "x", a, Uy, U)
         IN  /\ mover' = mv
             /\ cand' = y
             /\ acc' = a
             /\ ecalls' = IF ok THEN {y} ELSE {}
             /\ x' = nx_
             /\ U' = nU
             /\ xp' = Updated(mv = "xp", a, y, xp)
             /\ Up' = Updated(mv = "xp", a, Uy, Up)
             /\ Output' = Append(Output, Row(nx_, nU))
             /\ rng' = Advance(rng, IF ok THEN 4 ELSE 3)
    /\ it' = it + 1
    /\ kercall' = kercall + 1
    /\ UNCHANGED <<pc, T, x0, xp0, hpd_index, MAP, start, Out_r, runNo, prevOutput, prevInit>>

\* twalk.Run, Terminated
Terminate ==
    /\ pc = "iterating"
    /\ ~MoreIterations(it, T)
    /\ pc' = "terminated"
    /\ UNCHANGED <<rng, T, x0, xp0, x, xp, U, Up, Output, it, kercall,
                   mover, cand, acc, ecalls, hpd_index, MAP, start, Out_r, runNo,
                   prevOutput, prevInit>>

\* lines 184-185
ComputeMAP ==
    /\ pc = "terminated"
    /\ \E idx \in argsort(LastColumn(Output)) :
         /\ hpd_index' = idx
         /\ MAP' = MAPOf(Output, idx)
    /\ pc' = "mapped"
    /\ UNCHANGED <<rng, T, x0, xp0, x, xp, U, Up, Output, it, kercall,
                   mover, cand, acc, ecalls, start, Out_r, runNo, prevOutput, prevInit>>

\* lines 188-191 and 201
plot_post ==
    /\ pc = "mapped"
    /\ start' = Burning(T)
    /\ Out_r' = SliceFrom(FirstColumn(Output), Burning(T))
    /\ pc' = "plotted"
    /\ UNCHANGED <<rng, T, x0, xp0, x, xp, U, Up, Output, it, kercall,
                   mover, cand, acc, ecalls, hpd_index, MAP, runNo, prevOutput, prevInit>>

Next ==
    \/ MakeData
    \/ RunInit
    \/ Iterate
    \/ Terminate
    \/ ComputeMAP
    \/ plot_post

Spec == Init /\ [][Next]_vars

(***************************************************************************)
(* Two executions of the script, one after the other, on the same inputs   *)
(***************************************************************************)
\* the script as it is: line 183 hands Run two SimInit() draws
InitRepro == InitWith(MaxTRepro, SimInit(SeedNone))

\* the script is started again: T is the same, line 183 draws x0 and xp0 anew
Restart ==
    /\ pc \in {"plotted", "failed"}
    /\ runNo = 1
    /\ runNo' = 2
    /\ prevOutput' = Output
    /\ prevInit' = <<x0, xp0>>
    /\ x0' \in SimInit(SeedNone)
    /\ xp0' \in SimInit(SeedNone)
    /\ pc' = "start"
    /\ rng' = SeedNone
    /\ x' = <<>> /\ xp' = <<>> /\ U' = 0 /\ Up' = 0
    /\ Output' = <<>>
    /\ it' = 0 /\ kercall' = 0
    /\ mover' = "none" /\ cand' = <<>> /\ acc' = FALSE
    /\ ecalls' = {}
    /\ hpd_index' = <<>> /\ MAP' = <<>> /\ start' = 0 /\ Out_r' = <<>>
    /\ UNCHANGED T

NextRepro ==
    \/ Next
    \/ Restart

SpecRepro == InitRepro /\ [][NextRepro]_vars

(***************************************************************************)
(* The reporting lines applied to a synthetic Trace                        *)
(***************************************************************************)
SynthRows == {<<k, e>> : k \in 1 .. 2, e \in 0 .. 2}
SynthTraces == UNION {[1 .. n -> SynthRows] : n \in 2 .. SynthLen}

InitSynth ==
    /\ Output \in SynthTraces
    /\ T = Len(Output) - 1
    /\ it = T
    /\ kercall = T
    /\ pc = "terminated"
    /\ rng = SeedNone
    /\ x0 = <<Output[1][1]>> /\ xp0 = <<Output[1][1]>>
    /\ x = <<Output[Len(Output)][1]>> /\ xp = <<Output[1][1]>>
    /\ U = Output[Len(Output)][2] /\ Up = Output[1][2]
    /\ mover = "none" /\ cand = <<>> /\ acc = FALSE
    /\ ecalls = {}
    /\ hpd_index = <<>> /\ MAP = <<>> /\ start = 0 /\ Out_r = <<>>
    /\ runNo = 1
    /\ prevOutput = <<>>
    /\ prevInit = <<>>

NextSynth ==
    \/ ComputeMAP
    \/ plot_post

SpecSynth == InitSynth /\ [][NextSynth]_vars

(***************************************************************************)
(* Claims                                                                  *)
(***************************************************************************)
Running == pc \in {"iterating", "terminated", "mapped", "plotted"}
Returned == pc \in {"terminated", "mapped", "plotted"}
Inside(p) == 0 < p[1] /\ p[1] < One

\* C1: once Run has initialised, both walkers lie strictly between 0 and 1, an
\* accepted candidate lies there too, and so does every theta written to Output.
C1_WalkersInSupport ==
    Running =>
        /\ Inside(x) /\ Inside(xp)
        /\ acc => Inside(cand)
        /\ \A i \in 1 .. Len(Output) : Inside(Output[i])

\* C1 witness: both walkers have left their initial points by accepted moves
C1_Witness ==
    /\ pc = "iterating" /\ it >= 2 /\ acc
    /\ Inside(x0) /\ Inside(xp0)
    /\ x # x0 /\ xp # xp0

\* C2 as stated: every iteration changes exactly one of the two walkers.
C2_ExactlyOneChanges ==
    [][it' = it + 1 =>
          ~((x' # x \/ U' # U) <=> (xp' # xp \/ Up' # Up))]_vars

\* C2 amended: an iteration changes at most the moving walker, and only when its
\* candidate is accepted; the other walker's point and cached energy are the
\* values ChainState held before the iteration.
C2_OnlyMoverChanges ==
    [][it' = it + 1 =>
          /\ mover' \in {"x", "xp"}
          /\ mover' = "x" => (xp' = xp /\ Up' = Up)
          /\ mover' = "xp" => (x' = x /\ U' = U)
          /\ ~acc' => (x' = x /\ U' = U /\ xp' = xp /\ Up' = Up)]_vars

\* C2 witness: the secondary walker moved by an accepted proposal, the primary
\* one is where it started
C2_Witness ==
    /\ pc = "iterating" /\ it = 1 /\ acc /\ mover = "xp"
    /\ xp # xp0 /\ x = x0

\* C3: a returned run of T iterations holds T + 1 records, record 0 being the
\* initial state; an iteration appends exactly one record and no step changes
\* or removes a record already there.
C3_TraceLength ==
    /\ [](Returned => (Len(Output) = T + 1 /\ Output[1][1] = x0[1]))
    /\ [](Running => Len(Output) = it + 1)
    /\ [][/\ Len(Output') >= Len(Output)
          /\ SubSeq(Output', 1, Len(Output)) = Output
          /\ it' = it + 1 => Len(Output') = Len(Output) + 1]_vars

\* C3 witness: a run of at least two iterations, one that moved the primary
\* walker and one that left it in place
C3_Witness ==
    /\ pc = "terminated" /\ T >= 2
    /\ Output[1] # Output[2] /\ Output[2] = Output[3]

\* C4: two executions with the same seed and T whose initial points x0 and xp0
\* are the same end with the same Output.
C4_Reproducible ==
    (runNo = 2 /\ Returned /\ prevInit = <<x0, xp0>>) => Output = prevOutput

\* C5: Energy is only invoked at points strictly between 0 and 1; a candidate
\* outside is rejected without any Energy invocation.
C5_ShortCircuit ==
    /\ \A p \in ecalls : Inside(p)
    /\ (Running /\ it >= 1 /\ ~Inside(cand)) => (~acc /\ ecalls = {})

\* C5 witness: an iteration whose candidate fell at or below zero
C5_Witness ==
    /\ pc = "iterating" /\ it >= 1
    /\ cand[1] <= 0 /\ ~acc /\ ecalls = {}

\* C6: with an initial point outside the support Run never iterates: no record,
\* no kernel call, no Energy call, and the script gets no result to report.
C6_InitFailsFatally ==
    ~(Inside(x0) /\ Inside(xp0)) =>
        /\ pc \in {"start", "data", "failed"}
        /\ Output = <<>> /\ it = 0 /\ kercall = 0 /\ ecalls = {}
        /\ x = <<>> /\ xp = <<>>
        /\ hpd_index = <<>> /\ MAP = <<>> /\ Out_r = <<>>

\* C6 witness: Run was refused because of the second point alone
C6_Witness ==
    pc = "failed" /\ T >= 1 /\ Inside(x0) /\ xp0[1] = One

\* C8 as stated: trimming drops the first 0.4 of the Trace's entries.
C8_FractionOfTrace ==
    pc = "plotted" =>
        Len(Out_r) = Len(Output) - (BurnNum * Len(Output)) \div BurnDen

\* C8 amended: trimming drops the first int(0.4 T) of the T + 1 thetas of the
\* Trace, T being the number of iterations, keeps the rest in order and leaves
\* Output as it was; for T = 1000 that is 400 dropped and 601 kept.
C8_BurnIn ==
    /\ [](pc = "plotted" =>
            /\ Len(Output) = T + 1
            /\ start * BurnDen <= BurnNum * T
            /\ BurnNum * T < (start + 1) * BurnDen
            /\ Len(Out_r) = T + 1 - start
            /\ \A i \in 1 .. Len(Out_r) : Out_r[i] = Output[start + i][1])
    /\ [](Burning(1000) = 400 /\ (1000 + 1) - Burning(1000) = 601)
    /\ [][pc' = "plotted" => Output' = Output]_vars

\* C8 witness: a run of three iterations was trimmed to its last three thetas
C8_Witness ==
    pc = "plotted" /\ T = 3 /\ start = 1 /\ Len(Out_r) = 3 /\ Out_r[1] # Out_r[3]

\* C9 as stated: MAP is a (theta, energy) entry of the Trace of least energy.
C9_MAPIsTraceEntry ==
    pc \in {"mapped", "plotted"} =>
        \E i \in 1 .. Len(Output) :
            /\ MAP = Output[i]
            /\ \A j \in 1 .. Len(Output) : Output[i][2] <= Output[j][2]

\* C9 amended: MAP is the theta alone of a Trace entry whose energy is no larger
\* than any other entry's; the energy is not part of MAP. For five entries whose
\* third has the strictly smallest energy it is the third entry's theta.
C9_MAPIsArgminTheta ==
    pc \in {"mapped", "plotted"} =>
        /\ Len(MAP) = d
        /\ hpd_index[1] \in 1 .. Len(Output)
        /\ MAP = <<Output[hpd_index[1]][1]>>
        /\ \A j \in 1 .. Len(Output) : Output[hpd_index[1]][2] <= Output[j][2]
        /\ (/\ Len(Output) = 5
            /\ \A j \in {1, 2, 4, 5} : Output[3][2] < Output[j][2])
           => (hpd_index[1] = 3 /\ MAP = <<Output[3][1]>>)

\* C9 witness: five entries, the third of strictly least energy and with a theta
\* the first two do not have
C9_Witness ==
    /\ pc = "mapped" /\ Len(Output) = 5
    /\ \A j \in {1, 2, 4, 5} : Output[3][2] < Output[j][2]
    /\ Output[3][1] # Output[1][1] /\ Output[3][1] # Output[2][1]

\* the negative log posterior at the points of the support
NegLogPosterior ==
    [k \in 1 .. (One - 1) |-> -(LogLikelihood(<<k>>) + LogPrior(<<k>>))]

\* C10: the cached energies are the negative log posterior at the walkers'
\* current points, and every record of Output pairs a theta with the negative
\* log posterior at that theta, the last record being the primary walker's.
C10_EnergiesNeverStale ==
    Running =>
        /\ U = NegLogPosterior[x[1]]
        /\ Up = NegLogPosterior[xp[1]]
        /\ \A i \in 1 .. Len(Output) : Output[i][2] = NegLogPosterior[Output[i][1]]
        /\ Output[Len(Output)] = <<x[1], U>>

\* C10 witness: accepted and rejected proposals on both walkers
C10_Witness ==
    /\ pc = "terminated" /\ it = 3
    /\ x # x0 /\ xp # xp0 /\ ~acc
    /\ U # Up /\ Output[1][2] # Output[3][2]
====
